---- MODULE Spec2Model ----
(***************************************************************************)
(* Model of eventprop's layer chain (src/eventprop/layer.py), its two loss *)
(* layers (src/eventprop/loss_layer.py) and its training loop              *)
(* (src/eventprop/training.py).                                            *)
(*                                                                         *)
(* Conventions.  Neuron indices are 0-based as in the source; a batch is a *)
(* sequence whose element b+1 is the source's batch_idx b.  A first-spike  *)
(* time is NaN (no spike) or a positive integer (an ordered time unit).    *)
(* Floating-point results that the source only tests with np.isnan are     *)
(* kept as the classes "nan" / "fin"; the accuracy np.mean over a 0/1 list *)
(* is kept as the exact fraction <<sum, count>>.                           *)
(***************************************************************************)
EXTENDS Integers, Sequences, FiniteSets, TLC

VARIABLES
    kind,            \* class of self.loss: "TTFS" or "VMax"
    layers,          \* per Layer object: ancestor_layer, _ran_forward, _ran_backward
    post_batch,      \* loss.first_spike_times (TTFS) / loss.maxima_batch values (VMax)
    input_batch,     \* the batch the last forward of the loss chain was given
    has_batch_attrs, \* loss has the attributes n_batch / _batch_idxs (set by forward)
    fwd_chain,       \* per layer: forward order of the chained call that last ran it
    result,          \* outcome of the last call made on a layer
    cfg,             \* constructor and train() arguments of the training object
    dead_fraction,   \* hidden_layer.dead_fraction, output_layer.dead_fraction (percent)
    w_in,            \* hidden_layer.w_in, output_layer.w_in
    opt,             \* optimizer: parameters.lr, pending gradients, steps taken
    tr,              \* train(): position, iteration, minibatch, batch_loss, batch_accuracy
    minibatch_idx,   \* self._minibatch_idx
    hist,            \* losses, accuracies, test_*, valid_*, weights
    oplog,           \* forward / backward / optimizer calls made by train(), in order
    ds               \* a SpikeDataset under test: its fields and the last operation on it

layerVars == <<kind, layers, post_batch, input_batch, has_batch_attrs, fwd_chain, result>>
trainVars == <<cfg, dead_fraction, w_in, opt, tr, minibatch_idx, hist, oplog>>
trainVarsButTr == <<cfg, dead_fraction, w_in, opt, minibatch_idx, hist, oplog>>
vars == <<kind, layers, post_batch, input_batch, has_batch_attrs, fwd_chain, result,
          cfg, dead_fraction, w_in, opt, tr, minibatch_idx, hist, oplog, ds>>

----------------------------------------------------------------------------
(* Bounds of the model and constants of the program *)

\* largest number of samples in a batch
MaxBatch == 2
\* loss_parameters n (yinyang.py: TTFSCrossEntropyLossParameters(n=3))
NNeurons == 3
\* np.nan, the "no spike" entry of first_spike_times
NaN == -1

Neurons == 0 .. (NNeurons - 1)
LayerIds == {"hidden", "output", "loss"}
None == "None"
LossKinds == {"TTFS", "VMax"}

ErrForwardFirst == "RuntimeError: Run forward first!"
ErrBackwardFirst == "RuntimeError: Run backward to create errors first."
ErrAttribute == "AttributeError"
NoErr == "ok"

IsNan(x) == x = NaN

\* one sample's per-neuron summary
SpikeTimes == {NaN, 1, 2}
Maxima == {0, 1}
TTFSSamples == [Neurons -> SpikeTimes]
VMaxSamples == [Neurons -> Maxima]
SamplesOf(k) == IF k = "TTFS" THEN TTFSSamples ELSE VMaxSamples
\* the summaries a forward pass of the loss layer can leave for a batch
BatchesOf(k, maxb) == UNION {[1 .. b -> SamplesOf(k)] : b \in 1 .. maxb}
LabelsFor(b) == [1 .. b -> Neurons]

----------------------------------------------------------------------------
(* Sums over finite index ranges *)

RECURSIVE SumTo(_, _)
SumTo(f, n) == IF n = 0 THEN 0 ELSE f[n] + SumTo(f, n - 1)

\* np.mean of a list of 0/1 entries, as the fraction <<sum, len>>
Mean01(xs) == <<SumTo(xs, Len(xs)), Len(xs)>>

----------------------------------------------------------------------------
(* TTFSCrossEntropyLoss: pure parts *)

\* first_spike_idxs of one sample as the simulator leaves them: the position of
\* each neuron's first spike among the sample's first spikes, ordered by time and
\* then by neuron; NaN's integer stand-in for a neuron without a spike
FirstSpikeIdxs(times) ==
    [j \in Neurons |->
        IF IsNan(times[j]) THEN NaN
        ELSE Cardinality({i \in Neurons :
                 /\ ~IsNan(times[i])
                 /\ \/ times[i] < times[j]
                    \/ (times[i] = times[j] /\ i < j)})]

\* np.nansum(np.exp(-first_spike_times / tau0), axis=1) for one sample:
\* "zero" when every entry is NaN, a positive number otherwise
TTFS_sum0(times) == IF \A j \in Neurons : IsNan(times[j]) THEN "zero" ELSE "pos"

\* get_losses, one sample: -log(exp(-t_label/tau0)/sum0) + alpha*(exp(t_label/tau1)-1)
TTFS_loss(times, label) == IF IsNan(times[label]) THEN "nan" ELSE "fin"

TTFS_get_losses(batch, labels) ==
    [b \in 1 .. Len(batch) |-> TTFS_loss(batch[b], labels[b])]

\* (get_accuracy without the nan mask: a silent neuron fails the comparison)
TTFS_correct_nomask(times, label) ==
    IF IsNan(times[label]) THEN 0
    ELSE IF \A j \in Neurons : ~IsNan(times[j]) /\ times[j] >= times[label]
         THEN 1 ELSE 0
\* get_accuracy, one sample (loop body, lines 73-83)
TTFS_correct(times, label) ==
    IF IsNan(times[label]) THEN 0
    ELSE IF \A j \in {i \in Neurons : ~IsNan(times[i])} : times[j] >= times[label]
         THEN 1 ELSE 0

\* get_accuracy: the list "results", one 0/1 entry per sample
TTFS_results(batch, labels) ==
    [b \in 1 .. Len(batch) |-> TTFS_correct(batch[b], labels[b])]

\* backward, lines 94-102: label_error of one sample.  sum0 == 0 is replaced by
\* inf; exp(-NaN/tau0) is NaN and makes the whole expression NaN
TTFS_label_error(times, label) ==
    LET sum0 == IF TTFS_sum0(times) = "zero" THEN "inf" ELSE TTFS_sum0(times)
        exp_t_label == IF IsNan(times[label]) THEN "nan" ELSE "pos"
    IN  IF exp_t_label = "nan" THEN "nan" ELSE "fin"

\* backward, line 110: errors[batch_idx, nrn_idx]
TTFS_error(times, nrn) == IF IsNan(times[nrn]) THEN "nan" ELSE "fin"

SetError(b, idx, nrn, formula) ==
    [sample |-> b, idx |-> idx, nrn |-> nrn, formula |-> formula]

\* backward, lines 103-108: the set_error calls of the first loop
RECURSIVE TTFS_label_calls(_, _, _)
TTFS_label_calls(batch, labels, b) ==
    IF b > Len(batch) THEN <<>>
    ELSE (IF TTFS_label_error(batch[b], labels[b]) # "nan"
          THEN <<SetError(b, FirstSpikeIdxs(batch[b])[labels[b]], labels[b], "label")>>
          ELSE <<>>)
         \o TTFS_label_calls(batch, labels, b + 1)

\* (inner loop without the skip of the label neuron)
RECURSIVE TTFS_nrn_calls_withlabel(_, _, _, _)
TTFS_nrn_calls_withlabel(times, label, b, nrn) ==
    IF nrn >= NNeurons THEN <<>>
    ELSE (IF TTFS_error(times, nrn) # "nan"
          THEN <<SetError(b, FirstSpikeIdxs(times)[nrn], nrn, "nonlabel")>>
          ELSE <<>>)
         \o TTFS_nrn_calls_withlabel(times, label, b, nrn + 1)

\* backward, lines 115-122: the set_error calls of the inner loop of one sample
RECURSIVE TTFS_nrn_calls(_, _, _, _)
TTFS_nrn_calls(times, label, b, nrn) ==
    IF nrn >= NNeurons THEN <<>>
    ELSE (IF nrn # label /\ TTFS_error(times, nrn) # "nan"
          THEN <<SetError(b, FirstSpikeIdxs(times)[nrn], nrn, "nonlabel")>>
          ELSE <<>>)
         \o TTFS_nrn_calls(times, label, b, nrn + 1)

\* (second loop without the skip of samples whose label error is NaN)
RECURSIVE TTFS_other_calls_noskip(_, _, _)
TTFS_other_calls_noskip(batch, labels, b) ==
    IF b > Len(batch) THEN <<>>
    ELSE TTFS_nrn_calls(batch[b], labels[b], b, 0)
         \o TTFS_other_calls_noskip(batch, labels, b + 1)

\* backward, lines 112-122: the set_error calls of the second loop
RECURSIVE TTFS_other_calls(_, _, _)
TTFS_other_calls(batch, labels, b) ==
    IF b > Len(batch) THEN <<>>
    ELSE (IF TTFS_label_error(batch[b], labels[b]) = "nan" THEN <<>>
          ELSE TTFS_nrn_calls(batch[b], labels[b], b, 0))
         \o TTFS_other_calls(batch, labels, b + 1)

TTFS_set_errors(batch, labels) ==
    TTFS_label_calls(batch, labels, 1) \o TTFS_other_calls(batch, labels, 1)

----------------------------------------------------------------------------
(* VMaxCrossEntropyLoss: pure parts *)

\* get_losses, one sample: -log(exp(v_label) / sum0), always a finite number
VMax_get_losses(batch, labels) == [b \in 1 .. Len(batch) |-> "fin"]

\* (get_accuracy that only asks the label to attain the maximum)
VMax_correct_argmax(values, label) ==
    IF \A j \in Neurons : values[label] >= values[j] THEN 1 ELSE 0
\* get_accuracy, one sample: np.sum(values >= values[label]) == 1
VMax_correct(values, label) ==
    IF Cardinality({j \in Neurons : values[j] >= values[label]}) = 1 THEN 1 ELSE 0

\* get_accuracy: the list np.mean is taken of, one entry per sample
VMax_results(batch, labels) ==
    [b \in 1 .. Len(batch) |-> VMax_correct(batch[b], labels[b])]

\* fractions <<numerator, denominator>> with a positive denominator
FracSub(x, y) == <<x[1] * y[2] - y[1] * x[2], x[2] * y[2]>>
FracAdd(x, y) == <<x[1] * y[2] + y[1] * x[2], x[2] * y[2]>>
FracEq(x, y) == x[1] * y[2] = y[1] * x[2]

\* np.exp on a voltage maximum of the model: a positive, strictly increasing
\* integer stand-in (powers of 2 on the maxima 0, 1, ...)
Exp(v) == 2 ^ v

RECURSIVE SumExp(_, _)
SumExp(values, n) == IF n = 0 THEN 0 ELSE Exp(values[n - 1]) + SumExp(values, n - 1)

\* forward, lines 131-134: sum0 of one sample
VMax_sum0(values) == SumExp(values, NNeurons)

\* backward, lines 176-181: error = 1 / n_batch * np.exp(values) / sum0
VMax_error(values, n_batch) ==
    [j \in Neurons |-> <<Exp(values[j]), n_batch * VMax_sum0(values)>>]

\* a set_error call that carries the injected value
SetErrorValue(b, idx, nrn, formula, value) ==
    [sample |-> b, idx |-> idx, nrn |-> nrn, formula |-> formula, value |-> value]

\* backward, lines 182-183: set_error(nrn_idx, error[nrn_idx]) for every neuron
RECURSIVE VMax_nrn_calls(_, _, _)
VMax_nrn_calls(error, b, nrn) ==
    IF nrn >= NNeurons THEN <<>>
    ELSE <<SetErrorValue(b, nrn, nrn, "softmax", error[nrn])>>
         \o VMax_nrn_calls(error, b, nrn + 1)

\* (loop without the second set_error call on the label neuron)
RECURSIVE VMax_calls_from_nolabel(_, _, _)
VMax_calls_from_nolabel(batch, labels, b) ==
    IF b > Len(batch) THEN <<>>
    ELSE VMax_nrn_calls(VMax_error(batch[b], Len(batch)), b, 0)
         \o VMax_calls_from_nolabel(batch, labels, b + 1)

\* backward, lines 175-186: the set_error calls of the whole batch
RECURSIVE VMax_calls_from(_, _, _)
VMax_calls_from(batch, labels, b) ==
    IF b > Len(batch) THEN <<>>
    ELSE LET n_batch == Len(batch)
             error == VMax_error(batch[b], n_batch)
         IN  VMax_nrn_calls(error, b, 0)
             \o <<SetErrorValue(b, labels[b], labels[b], "softmax_minus_one",
                                FracSub(error[labels[b]], <<1, n_batch>>))>>
             \o VMax_calls_from(batch, labels, b + 1)

VMax_set_errors(batch, labels) == VMax_calls_from(batch, labels, 1)

\* Maxima.set_error(nrn_idx, error) stores the error of neuron nrn_idx, replacing
\* the one stored before: the calls that address neuron j of sample b, and the
\* error the sample holds for j after all of them
CallsOn(calls, b, j) ==
    {i \in 1 .. Len(calls) : calls[i].sample = b /\ calls[i].idx = j}
StoredError(calls, b, j) ==
    LET on == CallsOn(calls, b, j)
    IN  calls[CHOOSE i \in on : \A k \in on : k <= i].value

----------------------------------------------------------------------------
(* Layer: the chain and its two guards *)

\* Layer.__init__
LayerInit == [ancestor_layer |-> None, ran_forward |-> FALSE, ran_backward |-> FALSE]
InitLayers == [l \in LayerIds |-> LayerInit]

\* arguments of Layer.__call__: a bare batch, a (batch, layer) pair as a call on
\* the upstream layer returns it, or a value of another shape.  For a tuple, size
\* is its length, is_batch says whether arg[0] exists and is a SpikesVector,
\* second_is_layer whether arg[1] exists and is a Layer
BareBatch == [is_tuple |-> FALSE, size |-> 0, is_batch |-> TRUE,
              second_is_layer |-> FALSE, layer |-> None]
PairFrom(a) == [is_tuple |-> TRUE, size |-> 2, is_batch |-> TRUE,
                second_is_layer |-> TRUE, layer |-> a]

\* a pair (batch, x) whose second element is not a Layer
BadPair == [is_tuple |-> TRUE, size |-> 2, is_batch |-> TRUE,
            second_is_layer |-> FALSE, layer |-> None]
\* a value that is neither a tuple nor a batch
OtherValue == [is_tuple |-> FALSE, size |-> 0, is_batch |-> FALSE,
               second_is_layer |-> FALSE, layer |-> None]
\* a pair whose second element is layer a but whose first is not a batch
BadFirstFrom(a) == [is_tuple |-> TRUE, size |-> 2, is_batch |-> FALSE,
                    second_is_layer |-> TRUE, layer |-> a]
\* the empty tuple ()
EmptyTuple == [is_tuple |-> TRUE, size |-> 0, is_batch |-> FALSE,
               second_is_layer |-> FALSE, layer |-> None]
\* the one-element tuples (batch,) and (x,) with x not a batch
OneTupleBatch == [is_tuple |-> TRUE, size |-> 1, is_batch |-> TRUE,
                  second_is_layer |-> FALSE, layer |-> None]
OneTupleOther == [is_tuple |-> TRUE, size |-> 1, is_batch |-> FALSE,
                  second_is_layer |-> FALSE, layer |-> None]
\* a tuple (batch, a, x) of three elements that begins like a pair from layer a
TripleFrom(a) == [is_tuple |-> TRUE, size |-> 3, is_batch |-> TRUE,
                  second_is_layer |-> TRUE, layer |-> a]

ErrArguments == "RuntimeError: Arguments not recognized."
ErrIndex == "IndexError: tuple index out of range"

\* (Layer.__call__ that forgets to record the ancestor of a pair)
LayerCall_norecord(L, l, arg) ==
    IF arg.is_tuple
    THEN IF arg.size = 0
         THEN [layers |-> L, forward |-> FALSE, err |-> ErrIndex]
         ELSE IF ~arg.is_batch
         THEN [layers |-> L, forward |-> FALSE, err |-> ErrArguments]
         ELSE IF arg.size = 1
         THEN [layers |-> L, forward |-> FALSE, err |-> ErrIndex]
         ELSE IF arg.second_is_layer
         THEN [layers |-> L, forward |-> TRUE, err |-> NoErr]
         ELSE [layers |-> L, forward |-> FALSE, err |-> ErrArguments]
    ELSE IF arg.is_batch
         THEN [layers |-> L, forward |-> TRUE, err |-> NoErr]
         ELSE [layers |-> L, forward |-> FALSE, err |-> ErrArguments]
\* Layer.__call__, lines 43-50: the ancestor it records, whether it goes on to
\* forward, the exception it raises.  Line 44 indexes the tuple before line 47
\* can be reached: arg[0] on the empty tuple raises IndexError; "and" evaluates
\* arg[1] only when arg[0] is a batch, and arg[1] on a one-element tuple raises
\* IndexError; elements after the second are never looked at
LayerCall(L, l, arg) ==
    IF arg.is_tuple
    THEN IF arg.size = 0
         THEN [layers |-> L, forward |-> FALSE, err |-> ErrIndex]
         ELSE IF ~arg.is_batch
         THEN [layers |-> L, forward |-> FALSE, err |-> ErrArguments]
         ELSE IF arg.size = 1
         THEN [layers |-> L, forward |-> FALSE, err |-> ErrIndex]
         ELSE IF arg.second_is_layer
         THEN [layers |-> [L EXCEPT ![l].ancestor_layer = arg.layer],
               forward |-> TRUE, err |-> NoErr]
         ELSE [layers |-> L, forward |-> FALSE, err |-> ErrArguments]
    ELSE IF arg.is_batch
         THEN [layers |-> L, forward |-> TRUE, err |-> NoErr]
         ELSE [layers |-> L, forward |-> FALSE, err |-> ErrArguments]

\* forward of a LIFLayer / LILayer in front of the loss: sets ran_forward
UpstreamForward(L, l) == [L EXCEPT ![l].ran_forward = TRUE]

\* A backward walk carries the layers, the layers whose backward() the walk has
\* invoked so far (in order), and the error that ended it
RECURSIVE LayerBackward(_, _)
RECURSIVE UpstreamBackward(_, _)

\* Layer.backward, reached through super().backward() of layer l
LayerBackward(W, l) ==
    IF W.layers[l].ran_backward = FALSE
    THEN [W EXCEPT !.err = ErrBackwardFirst]
    ELSE IF W.layers[l].ancestor_layer # None
         THEN UpstreamBackward(W, W.layers[l].ancestor_layer)
         ELSE W

\* backward() of a LIFLayer / LILayer: the ordering guard, the layer's own
\* gradient computation, then Layer.backward
UpstreamBackward(W, l) ==
    IF ~W.layers[l].ran_forward
    THEN [W EXCEPT !.walk = Append(@, l), !.err = ErrForwardFirst]
    ELSE LayerBackward([W EXCEPT !.layers[l].ran_backward = TRUE,
                                 !.walk = Append(@, l)], l)

\* super().backward() of a loss layer: the LIFLayer / LILayer part of the loss
\* computes the layer's own gradient, then Layer.backward walks on
LossSuperBackward(L) ==
    LayerBackward([layers |-> [L EXCEPT !["loss"].ran_backward = TRUE],
                   walk |-> <<>>, err |-> NoErr], "loss")

----------------------------------------------------------------------------
(* The loss layers' methods, as functions of the state they read *)

NoResult == [op |-> "none", on |-> None, arg |-> OtherValue, err |-> NoErr, labels |-> <<>>,
             scores |-> <<>>, acc |-> <<0, 0>>, losses |-> <<>>, set_errors |-> <<>>,
             walk |-> <<>>, returned |-> <<"unset">>]

\* TTFSCrossEntropyLoss.forward / VMaxCrossEntropyLoss.forward: the flags
LossForward(L) == [L EXCEPT !["loss"].ran_forward = TRUE]

\* TTFSCrossEntropyLoss.get_losses / VMaxCrossEntropyLoss.get_losses
GetLosses(L, k, batch, labels) ==
    IF ~L["loss"].ran_forward
    THEN [NoResult EXCEPT !.op = "get_losses", !.on = "loss", !.labels = labels,
                          !.err = ErrForwardFirst]
    ELSE [NoResult EXCEPT !.op = "get_losses", !.on = "loss", !.labels = labels,
                          !.losses = IF k = "TTFS" THEN TTFS_get_losses(batch, labels)
                                     ELSE VMax_get_losses(batch, labels)]

\* TTFSCrossEntropyLoss.get_accuracy / VMaxCrossEntropyLoss.get_accuracy: no
\* guard on _ran_forward; before the first forward the attributes _batch_idxs
\* (TTFS) and n_batch (VMax) do not exist and reading them raises AttributeError
GetAccuracy(attrs, k, batch, labels) ==
    IF ~attrs
    THEN [NoResult EXCEPT !.op = "get_accuracy", !.on = "loss", !.labels = labels,
                          !.err = ErrAttribute]
    ELSE LET results == IF k = "TTFS" THEN TTFS_results(batch, labels)
                        ELSE VMax_results(batch, labels)
         IN  [NoResult EXCEPT !.op = "get_accuracy", !.on = "loss", !.labels = labels,
                              !.scores = results, !.acc = Mean01(results)]

\* (backward that injects the errors before it checks _ran_forward)
LossBackward_lateguard(L, k, batch, labels) ==
    LET calls == IF k = "TTFS" THEN TTFS_set_errors(batch, labels)
                 ELSE VMax_set_errors(batch, labels)
        W == LossSuperBackward(L)
    IN  [layers |-> W.layers,
         res |-> [NoResult EXCEPT !.op = "backward", !.on = "loss",
                     !.labels = labels, !.set_errors = calls, !.walk = W.walk,
                     !.err = IF L["loss"].ran_forward THEN W.err ELSE ErrForwardFirst]]
\* TTFSCrossEntropyLoss.backward / VMaxCrossEntropyLoss.backward
LossBackward(L, k, batch, labels) ==
    IF ~L["loss"].ran_forward
    THEN [layers |-> L,
          res |-> [NoResult EXCEPT !.op = "backward", !.on = "loss",
                                   !.labels = labels, !.err = ErrForwardFirst]]
    ELSE LET calls == IF k = "TTFS" THEN TTFS_set_errors(batch, labels)
                      ELSE VMax_set_errors(batch, labels)
             \* TTFS sets _ran_backward itself (line 123) before super().backward()
             L1 == IF k = "TTFS" THEN [L EXCEPT !["loss"].ran_backward = TRUE] ELSE L
             W == LossSuperBackward(L1)
         IN  [layers |-> W.layers,
              res |-> [NoResult EXCEPT !.op = "backward", !.on = "loss",
                          !.labels = labels, !.set_errors = calls,
                          !.walk = W.walk, !.err = W.err]]

----------------------------------------------------------------------------
(* Calls on the layers: the actions shared by the specifications *)

\* layer(arg): Layer.__call__ and, when the argument is recognised, forward
ForwardStep(L, l, arg) ==
    LET r == LayerCall(L, l, arg)
    IN  [r EXCEPT !.layers = IF ~r.forward THEN r.layers
                             ELSE IF l = "loss" THEN LossForward(r.layers)
                             ELSE UpstreamForward(r.layers, l)]

\* self.loss(self.output_layer(self.hidden_layer(spikes))): the layers after it
ChainForward(L) ==
    LET h == ForwardStep(L, "hidden", BareBatch).layers
        o == ForwardStep(h, "output", PairFrom("hidden")).layers
    IN  ForwardStep(o, "loss", PairFrom("output")).layers

\* self.loss(self.output_layer(minibatch.spikes)) of AbstractOneLayer
ChainForwardOne(L) ==
    LET o == ForwardStep(L, "output", BareBatch).layers
    IN  ForwardStep(o, "loss", PairFrom("output")).layers

ChainOrderOne == [l \in LayerIds |->
                     IF l = "hidden" THEN <<>>
                     ELSE IF l = "output" THEN <<"output">>
                     ELSE <<"output", "loss">>]

ChainOrder == [l \in LayerIds |->
                  IF l = "hidden" THEN <<"hidden">>
                  ELSE IF l = "output" THEN <<"hidden", "output">>
                  ELSE <<"hidden", "output", "loss">>]

Upstream(l) == IF l = "loss" THEN {"hidden", "output"}
               ELSE IF l = "output" THEN {"hidden"} ELSE {}

\* the arguments a caller can pass to layer l: a batch, the pair returned by the
\* last call of an upstream layer (or a longer tuple that begins with it), or
\* something else
ArgsFor(L, l) ==
    {BareBatch, BadPair, OtherValue, EmptyTuple, OneTupleBatch, OneTupleOther}
        \cup {PairFrom(a) : a \in {u \in Upstream(l) : L[u].ran_forward}}
        \cup {TripleFrom(a) : a \in {u \in Upstream(l) : L[u].ran_forward}}
        \cup {BadFirstFrom(a) : a \in Upstream(l)}

\* summaries a forward of the loss layer leaves in the protocol specification:
\* one sample, with or without spikes (TTFS) / with or without a unique maximum
ProtocolBatches(k) ==
    IF k = "TTFS"
    THEN {<<[j \in Neurons |-> IF j = 0 THEN 1 ELSE IF j = 1 THEN NaN ELSE 2]>>,
          <<[j \in Neurons |-> NaN]>>}
    ELSE {<<[j \in Neurons |-> IF j = 0 THEN 1 ELSE 0]>>,
          <<[j \in Neurons |-> 0]>>}

\* a batch of n samples that belongs to no data set
AnonymousBatch(n) == [b \in 1 .. n |-> [id |-> 0, label |-> 0]]

\* labels a caller passes: one per sample of the stored summaries (one label when
\* there are none)
LabelChoices == IF post_batch = <<>> THEN LabelsFor(1) ELSE LabelsFor(Len(post_batch))

Call(l, arg) ==
    LET r == ForwardStep(layers, l, arg)
    IN  /\ layers' = r.layers
        /\ IF r.forward /\ l = "loss"
           THEN /\ post_batch' \in ProtocolBatches(kind)
                /\ input_batch' = AnonymousBatch(1)
                /\ has_batch_attrs' = TRUE
           ELSE UNCHANGED <<post_batch, input_batch, has_batch_attrs>>
        /\ fwd_chain' = IF ~r.forward THEN fwd_chain
                        ELSE IF arg.is_tuple
                        THEN [fwd_chain EXCEPT ![l] = Append(fwd_chain[arg.layer], l)]
                        ELSE [fwd_chain EXCEPT ![l] = <<l>>]
        /\ result' = [NoResult EXCEPT !.op = "call", !.on = l, !.arg = arg, !.err = r.err]
        /\ UNCHANGED <<ds, kind, trainVars>>

CallBackward(labels) ==
    LET r == LossBackward(layers, kind, post_batch, labels)
    IN  /\ layers' = r.layers
        /\ result' = r.res
        /\ UNCHANGED <<ds, kind, post_batch, input_batch, has_batch_attrs, fwd_chain, trainVars>>

CallGetLosses(labels) ==
    /\ result' = GetLosses(layers, kind, post_batch, labels)
    /\ UNCHANGED <<ds, kind, layers, post_batch, input_batch, has_batch_attrs, fwd_chain, trainVars>>

CallGetAccuracy(labels) ==
    /\ result' = GetAccuracy(has_batch_attrs, kind, post_batch, labels)
    /\ UNCHANGED <<ds, kind, layers, post_batch, input_batch, has_batch_attrs, fwd_chain, trainVars>>

----------------------------------------------------------------------------
(* SpikeDataset (layer.py 10-28) *)

\* largest number of samples in the fields a SpikeDataset is constructed from
MaxLen == 3
\* spike trains (by identity of their content) and labels of the samples
SpikeTrains == {1, 2}
DataLabels == {0, 1}
ErrAssertion == "AssertionError"

\* sequences over S of length at most n
SeqsUpTo(S, n) == UNION {[1 .. k -> S] : k \in 0 .. n}

\* (constructor without the size check of __post_init__)
SpikeDataset_noassert(spikes, labels) ==
    [spikes |-> spikes, labels |-> labels, err |-> NoErr]
\* SpikeDataset(spikes, labels): the dataclass constructor and __post_init__;
\* the assert fails when the two fields differ in size, and no object results
SpikeDataset(spikes, labels) ==
    IF Len(spikes) = Len(labels)
    THEN [spikes |-> spikes, labels |-> labels, err |-> NoErr]
    ELSE [spikes |-> <<>>, labels |-> <<>>, err |-> ErrAssertion]

\* xs[a:b] for a Python slice with 0 <= a and 0 <= b: clipped at the end, empty
\* when a >= b
PySlice(xs, a, b) ==
    IF a >= Len(xs) \/ a >= b THEN <<>>
    ELSE SubSeq(xs, a + 1, IF b < Len(xs) THEN b ELSE Len(xs))

\* __getitem__ with the slice a:b
DatasetGetItem(d, a, b) ==
    SpikeDataset(PySlice(d.spikes, a, b), PySlice(d.labels, a, b))

\* the permutations np.random.shuffle can leave in idxs = np.arange(n)
IdxPermutations(n) ==
    {p \in [1 .. n -> 1 .. n] : \A i, j \in 1 .. n : p[i] = p[j] => i = j}

\* xs[idxs] (numpy fancy indexing) on a sequence
TakeIdxs(xs, idxs) == [i \in 1 .. Len(idxs) |-> xs[idxs[i]]]

\* (shuffle that draws the permutation for the spikes only)
Shuffle_spikes_only(d, idxs) ==
    [d EXCEPT !.spikes = TakeIdxs(d.spikes, idxs)]
\* shuffle, lines 24-28, for the permutation idxs: the fields are reassigned in
\* place (no constructor call) and the method returns None
Shuffle(d, idxs) ==
    [d EXCEPT !.spikes = TakeIdxs(d.spikes, idxs),
              !.labels = TakeIdxs(d.labels, idxs)]

\* no SpikeDataset under test
NoDataset == [obj |-> SpikeDataset(<<>>, <<>>), op |-> "none",
              args |-> <<>>, before |-> SpikeDataset(<<>>, <<>>)]

\* ds after operation op with arguments args has yielded object d from object b
DatasetState(d, op, args, b) == [obj |-> d, op |-> op, args |-> args, before |-> b]

----------------------------------------------------------------------------
(* The training object (AbstractTwoLayer): arguments, data, initial state *)

\* an optional argument: Nothing for None, Some(x) for a value
Nothing == <<>>
Some(x) == <<x>>

\* gd_parameters.iterations
MaxIter == 4
\* gd_parameters.lr = 0.01 = LrNum / LrDen
LrNum == 1
LrDen == 100
\* lr_decay_gamma = 0.95 = GammaNum / GammaDen
GammaNum == 19
GammaDen == 20
\* weight_increase_bump = 5e-3, in units of 1e-3
Bump == 5
\* weight_increase_threshold_hidden = 0.3, weight_increase_threshold_output = 0.0,
\* in percent
ThresholdHidden == 30
ThresholdOutput == 0
\* dead fractions (percent) a forward pass can leave in a layer
DeadLevels == {0, 30, 50}
WeightLayers == {"hidden", "output"}

Sample(i, label) == [id |-> i, label |-> label]
\* the three data sets left by load_data and the constructor's shuffle
TrainSet == <<Sample(1, 0), Sample(2, 2), Sample(3, 1)>>
ValidSet == <<Sample(5, 0), Sample(7, 1)>>
TestSet == <<Sample(4, 2)>>
LabelsOf(dataset) == [b \in 1 .. Len(dataset) |-> dataset[b].label]

\* AbstractTraining.__init__ / AbstractTwoLayer.__init__ / train: the arguments;
\* variant tells AbstractTwoLayer ("two") from AbstractOneLayer ("one"), and
\* train_batch is the training set that load_data and the shuffle of line 33 leave
Configs ==
    [iterations : {MaxIter},
     train_batch : {TrainSet},
     minibatch_size : {Nothing, Some(2)},
     lr_decay_step : {Nothing, Some(1), Some(2)},
     valid_every : {Nothing, Some(2)},
     test_every : {Nothing, Some(2)},
     save_to : {Nothing, Some("file")},
     save_every : {2},
     variant : {"two"},
     weight_increase_bump : {Bump},
     weight_increase_threshold_hidden : {ThresholdHidden},
     weight_increase_threshold_output : {ThresholdOutput}]

\* the same arguments for a training object derived from AbstractOneLayer
OneLayerConfigs == {[c EXCEPT !.variant = "one"] : c \in Configs}

\* the defaults: lr_decay_step = 2000 (line 21), save_to = None, save_every =
\* test_every = valid_every = 100 (lines 107-110)
LrDecayStepDefault == 2000
SaveEveryDefault == 100
TestEveryDefault == 100
ValidEveryDefault == 100

\* a training object constructed and trained with the defaults of the
\* constructors and of train
DefaultConfig ==
    [iterations |-> MaxIter, train_batch |-> TrainSet,
     minibatch_size |-> Nothing, lr_decay_step |-> Some(LrDecayStepDefault),
     valid_every |-> Some(ValidEveryDefault), test_every |-> Some(TestEveryDefault),
     save_to |-> Nothing, save_every |-> SaveEveryDefault,
     variant |-> "two", weight_increase_bump |-> Bump,
     weight_increase_threshold_hidden |-> ThresholdHidden,
     weight_increase_threshold_output |-> ThresholdOutput]

\* the seven history attributes of the training object; assigned says whether
\* the object has them
Histories == {"losses", "accuracies", "test_losses", "test_accuracies",
              "valid_accuracies", "valid_losses", "weights"}

\* the histories right after reset_results: seven new empty lists
EmptyHist == [assigned |-> TRUE, losses |-> <<>>, accuracies |-> <<>>,
              test_losses |-> <<>>, test_accuracies |-> <<>>,
              valid_accuracies |-> <<>>, valid_losses |-> <<>>, weights |-> <<>>]

\* the histories after the constructor (lines 24-34), which assigns none of
\* them: the object has no such attributes until reset_results runs
NoHist == [EmptyHist EXCEPT !.assigned = FALSE]

\* the training object after its constructor, train() not yet called
NewTraining(c) ==
    /\ cfg = c
    /\ dead_fraction = [l \in WeightLayers |-> 0]
    /\ w_in = [l \in WeightLayers |-> <<100, 200>>]
    /\ opt = [lr |-> <<LrNum, LrDen>>, grad |-> FALSE, steps |-> 0]
    /\ tr = [pc |-> "start", stmt |-> 0, iteration |-> 0, minibatch |-> <<>>,
             batch_loss |-> [unset |-> TRUE], batch_accuracy |-> <<0, 0>>, saves |-> 0,
             ret |-> <<"unset">>, run |-> 1, err |-> NoErr]
    /\ minibatch_idx = 0
    /\ hist = NoHist
    /\ oplog = <<>>

\* the layer specifications leave the training object as constructed
IdleTraining == NewTraining(DefaultConfig)

----------------------------------------------------------------------------
(* Spec: any sequence of calls on freshly constructed layers *)

Init ==
    /\ kind \in LossKinds
    /\ layers = InitLayers
    /\ post_batch = <<>>
    /\ input_batch = <<>>
    /\ has_batch_attrs = FALSE
    /\ fwd_chain = [l \in LayerIds |-> <<>>]
    /\ result = NoResult
    /\ IdleTraining
    /\ ds = NoDataset

Next ==
    \/ \E l \in LayerIds : \E arg \in ArgsFor(layers, l) : Call(l, arg)
    \/ \E labels \in LabelChoices : CallBackward(labels)
    \/ \E labels \in LabelChoices : CallGetLosses(labels)
    \/ \E labels \in LabelChoices : CallGetAccuracy(labels)

Spec == Init /\ [][Next]_vars

----------------------------------------------------------------------------
(* SpecLoss: the loss layer's methods on every summary a forward pass of the  *)
(* chain loss(output_layer(hidden_layer(batch))) can leave                    *)

ChainedLayers == ChainForward(InitLayers)

InitLoss ==
    /\ kind \in LossKinds
    /\ layers = ChainedLayers
    /\ post_batch \in BatchesOf(kind, MaxBatch)
    /\ input_batch = AnonymousBatch(Len(post_batch))
    /\ has_batch_attrs = TRUE
    /\ fwd_chain = ChainOrder
    /\ result = NoResult
    /\ IdleTraining
    /\ ds = NoDataset

\* one method is applied to each drawn summary
ApplyBackward == result.op = "none" /\ \E labels \in LabelChoices : CallBackward(labels)
ApplyGetLosses == result.op = "none" /\ \E labels \in LabelChoices : CallGetLosses(labels)
ApplyGetAccuracy ==
    result.op = "none" /\ \E labels \in LabelChoices : CallGetAccuracy(labels)

NextLoss == ApplyBackward \/ ApplyGetLosses \/ ApplyGetAccuracy

SpecLoss == InitLoss /\ [][NextLoss]_vars

----------------------------------------------------------------------------
(* SpecData: a SpikeDataset constructed from any two fields, then sliced and *)
(* shuffled in any order                                                     *)

InitData ==
    /\ kind \in LossKinds
    /\ layers = InitLayers
    /\ post_batch = <<>>
    /\ input_batch = <<>>
    /\ has_batch_attrs = FALSE
    /\ fwd_chain = [l \in LayerIds |-> <<>>]
    /\ result = NoResult
    /\ IdleTraining
    /\ \E spikes \in SeqsUpTo(SpikeTrains, MaxLen) :
       \E labels \in SeqsUpTo(DataLabels, MaxLen) :
           ds = DatasetState(SpikeDataset(spikes, labels), "construct",
                             <<Len(spikes), Len(labels)>>, NoDataset.obj)

\* ds = ds[a:b]
DatasetSlice(a, b) ==
    /\ ds.obj.err = NoErr
    /\ ds' = DatasetState(DatasetGetItem(ds.obj, a, b), "getitem", <<a, b>>, ds.obj)
    /\ UNCHANGED <<layerVars, trainVars>>

\* ds.shuffle()
DatasetShuffle ==
    /\ ds.obj.err = NoErr
    /\ \E idxs \in IdxPermutations(Len(ds.obj.spikes)) :
           ds' = DatasetState(Shuffle(ds.obj, idxs), "shuffle", <<>>, ds.obj)
    /\ UNCHANGED <<layerVars, trainVars>>

NextData ==
    \/ \E a, b \in 0 .. (MaxLen + 1) : DatasetSlice(a, b)
    \/ DatasetShuffle

SpecData == InitData /\ [][NextData]_vars

----------------------------------------------------------------------------
(* AbstractTraining.train with AbstractTwoLayer: one action per statement *)

Min(a, b) == IF a < b THEN a ELSE b

\* dataset[a:b] on a sequence (Python slice, 0-based, clipped at the end)
Slice(xs, a, b) == SubSeq(xs, a + 1, Min(b, Len(xs)))

\* a mean of per-sample losses: the entries it averages over, and whether it is NaN
MeanOver(idxs, isnan) == [nan |-> isnan, over |-> idxs]

\* (np.mean: every entry counts, and one NaN entry makes the mean NaN)
Mean(xs) ==
    MeanOver(1 .. Len(xs), Len(xs) = 0 \/ \E i \in 1 .. Len(xs) : xs[i] = "nan")
\* np.nanmean over per-sample losses: the mean of the entries that are not NaN;
\* NaN (with a RuntimeWarning, no exception) when there is none
NanMean(xs) ==
    LET defined == {i \in 1 .. Len(xs) : xs[i] # "nan"}
    IN  MeanOver(defined, defined = {})

\* the summary the chain leaves for one sample in a training run: the samples
\* with an even id leave no spike at all (TTFS) / equal maxima (VMax), the others
\* spikes of neurons 0 and 2 / a maximum at neuron 0
SimSample(k, sample) ==
    IF k = "TTFS"
    THEN [j \in Neurons |-> IF sample.id % 2 = 0 \/ j = 1 THEN NaN
                            ELSE IF j = 0 THEN 1 ELSE 2]
    ELSE [j \in Neurons |-> IF sample.id % 2 = 1 /\ j = 0 THEN 1 ELSE 0]

\* the summaries the chain leaves for a data set in a training run
TrainSim(k, dataset) == [b \in 1 .. Len(dataset) |-> SimSample(k, dataset[b])]

\* AbstractTwoLayer.forward_and_backward: the order of its two calls
forward_and_backward == <<"forward", "backward">>

\* (loop body that steps the optimizer before forward_and_backward)
TrainBody_step_first ==
    <<"get_minibatch", "step", "zero_grad">> \o forward_and_backward
        \o <<"get_losses", "get_accuracy", "process_dead_neurons", "append",
             "lr_decay", "valid", "test", "save">>
\* (loop body that validates before it reads the training metrics)
TrainBody_valid_early ==
    <<"get_minibatch">> \o forward_and_backward
        \o <<"valid", "get_losses", "get_accuracy", "process_dead_neurons", "append",
             "step", "zero_grad", "lr_decay", "test", "save">>
\* train, lines 114-151: the statements of the loop body, in order
TrainBody ==
    <<"get_minibatch">> \o forward_and_backward
        \o <<"get_losses", "get_accuracy", "process_dead_neurons", "append",
             "step", "zero_grad", "lr_decay", "valid", "test", "save">>

At(s) == tr.pc = "body" /\ TrainBody[tr.stmt] = s

\* the current iteration has executed statement s of the loop body
After(s) ==
    /\ tr.pc = "body"
    /\ \E i \in 1 .. Len(TrainBody) : TrainBody[i] = s /\ tr.stmt > i

\* for iteration in range(iterations): the position after the loop head
LoopHead(t, i) ==
    IF i < cfg.iterations
    THEN [t EXCEPT !.pc = "body", !.stmt = 1, !.iteration = i]
    ELSE [t EXCEPT !.pc = "final_test", !.stmt = 0]

\* the position after the statement at tr.stmt
Advance(t) ==
    IF t.stmt < Len(TrainBody) THEN [t EXCEPT !.stmt = @ + 1]
    ELSE LoopHead(t, t.iteration + 1)

\* an exception leaves train
Raise(t, e) == [t EXCEPT !.pc = "failed", !.err = e]

\* (reset_results that keeps the histories of the previous run)
reset_results_keep(h) == h
\* reset_results, lines 87-91: every history becomes a new empty list
reset_results(h) == EmptyHist

\* line 112
TrainReset ==
    /\ tr.pc = "start"
    /\ hist' = reset_results(hist)
    /\ tr' = LoopHead(tr, 0)
    /\ UNCHANGED <<ds, layerVars, cfg, dead_fraction, w_in, opt, minibatch_idx, oplog>>

\* (_get_minibatch without the wrap of line 49)
GetMinibatchResult_nowrap(c, idx, train_batch) ==
    IF c.minibatch_size = Nothing
    THEN [samples |-> train_batch, idx |-> idx]
    ELSE [samples |-> Slice(train_batch, idx, idx + c.minibatch_size[1]),
          idx |-> idx + c.minibatch_size[1]]
\* _get_minibatch, lines 40-50: the samples returned and the cursor afterwards
GetMinibatchResult(c, idx, train_batch) ==
    IF c.minibatch_size = Nothing
    THEN [samples |-> train_batch, idx |-> idx]
    ELSE [samples |-> Slice(train_batch, idx, idx + c.minibatch_size[1]),
          idx |-> (idx + c.minibatch_size[1]) % Len(train_batch)]

GetMinibatch ==
    /\ At("get_minibatch")
    /\ LET r == GetMinibatchResult(cfg, minibatch_idx, cfg.train_batch)
       IN  /\ minibatch_idx' = r.idx
           /\ tr' = Advance([tr EXCEPT !.minibatch = r.samples])
    /\ UNCHANGED <<ds, layerVars, cfg, dead_fraction, w_in, opt, hist, oplog>>

\* self.loss(self.output_layer(self.hidden_layer(dataset.spikes))): what a chain
\* forward on a data set leaves in the layers and in the loss
ChainForwardOn(dataset, event) ==
    /\ layers' = ChainForward(layers)
    /\ post_batch' = TrainSim(kind, dataset)
    /\ input_batch' = dataset
    /\ has_batch_attrs' = TRUE
    /\ fwd_chain' = ChainOrder
    /\ dead_fraction' \in [WeightLayers -> DeadLevels]
    /\ oplog' = Append(oplog, event)

\* self.loss(self.output_layer(dataset.spikes)): the same for the chain of
\* AbstractOneLayer.forward_and_backward, which has no hidden layer
ChainForwardOneOn(dataset, event) ==
    /\ layers' = ChainForwardOne(layers)
    /\ post_batch' = TrainSim(kind, dataset)
    /\ input_batch' = dataset
    /\ has_batch_attrs' = TRUE
    /\ fwd_chain' = ChainOrderOne
    /\ dead_fraction' \in {d \in [WeightLayers -> DeadLevels] :
                               d["hidden"] = dead_fraction["hidden"]}
    /\ oplog' = Append(oplog, event)

\* the attributes a training object has: AbstractOneLayer.__init__ (lines
\* 157-168) assigns output_layer but no hidden_layer; no loss layer has an
\* attribute output_layer
HasHiddenLayer(c) == c.variant = "two"

\* forward_and_backward, line 209
TrainForward ==
    /\ At("forward")
    /\ IF cfg.variant = "two" THEN ChainForwardOn(tr.minibatch, "forward")
       ELSE ChainForwardOneOn(tr.minibatch, "forward")
    /\ result' = [NoResult EXCEPT !.op = "call", !.on = "loss"]
    /\ tr' = Advance(tr)
    /\ UNCHANGED <<ds, kind, cfg, w_in, opt, minibatch_idx, hist>>

\* forward_and_backward, line 210
TrainBackward ==
    /\ At("backward")
    /\ LET r == LossBackward(layers, kind, post_batch, LabelsOf(tr.minibatch))
       IN  /\ layers' = r.layers
           /\ result' = r.res
           /\ opt' = [opt EXCEPT !.grad = (r.res.err = NoErr) \/ @]
           /\ tr' = IF r.res.err = NoErr THEN Advance(tr) ELSE Raise(tr, r.res.err)
    /\ oplog' = Append(oplog, "backward")
    /\ UNCHANGED <<ds, kind, post_batch, input_batch, has_batch_attrs, fwd_chain, cfg, dead_fraction,
                   w_in, minibatch_idx, hist>>

\* line 116: batch_loss = np.nanmean(self.loss.get_losses(minibatch.labels))
TrainBatchLoss ==
    /\ At("get_losses")
    /\ LET r == GetLosses(layers, kind, post_batch, LabelsOf(tr.minibatch))
       IN  /\ result' = r
           /\ tr' = IF r.err = NoErr
                    THEN Advance([tr EXCEPT !.batch_loss = NanMean(r.losses)])
                    ELSE Raise(tr, r.err)
    /\ UNCHANGED <<ds, kind, layers, post_batch, input_batch, has_batch_attrs, fwd_chain, trainVarsButTr>>

\* line 117: batch_accuracy = self.loss.get_accuracy(minibatch.labels)
TrainBatchAccuracy ==
    /\ At("get_accuracy")
    /\ LET r == GetAccuracy(has_batch_attrs, kind, post_batch, LabelsOf(tr.minibatch))
       IN  /\ result' = r
           /\ tr' = IF r.err = NoErr
                    THEN Advance([tr EXCEPT !.batch_accuracy = r.acc])
                    ELSE Raise(tr, r.err)
    /\ UNCHANGED <<ds, kind, layers, post_batch, input_batch, has_batch_attrs, fwd_chain, trainVarsButTr>>

\* a weight array held outside its layer: data is its content; shares names the
\* layer whose w_in occupies the same memory, Nothing for an array of its own
\* w_in.copy(): a new array with the content of layer l's weights
ArrayCopy(w, l) == [shares |-> Nothing, data |-> w[l]]
\* (w_in itself: another reference to layer l's weight array)
ArrayRef(w, l) == [shares |-> Some(l), data |-> w[l]]

\* the arrays of one weight snapshot, as plain contents
SnapshotData(snapshot) == [k \in 1 .. Len(snapshot) |-> snapshot[k].data]

\* an in-place write to the layers' weights (w_in += ..., lines 219 and 223, and
\* the optimizer's update) shows in every array that shares their memory;
\* w is the weights after the write
WriteThrough(snapshots, w) ==
    [s \in 1 .. Len(snapshots) |->
        [k \in 1 .. Len(snapshots[s]) |->
            IF snapshots[s][k].shares = Nothing THEN snapshots[s][k]
            ELSE [snapshots[s][k] EXCEPT !.data = w[snapshots[s][k].shares[1]]]]]

\* w_in += weight_increase_bump on a weight array
BumpWeights(w, bump) == [i \in DOMAIN w |-> w[i] + bump]

\* (process_dead_neurons that checks the output layer independently)
process_dead_neurons_both(c, dead, w) ==
    [l \in WeightLayers |->
        IF l = "hidden" /\ dead["hidden"] > c.weight_increase_threshold_hidden
        THEN BumpWeights(w[l], c.weight_increase_bump)
        ELSE IF l = "output" /\ dead["output"] > c.weight_increase_threshold_output
        THEN BumpWeights(w[l], c.weight_increase_bump)
        ELSE w[l]]
\* AbstractTwoLayer.process_dead_neurons, lines 212-223: the weights after it
process_dead_neurons(c, dead, w) ==
    IF dead["hidden"] > c.weight_increase_threshold_hidden
    THEN [w EXCEPT !["hidden"] = BumpWeights(@, c.weight_increase_bump)]
    ELSE IF dead["output"] > c.weight_increase_threshold_output
         THEN [w EXCEPT !["output"] = BumpWeights(@, c.weight_increase_bump)]
         ELSE w

\* AbstractOneLayer.process_dead_neurons, lines 174-179
process_dead_neurons_one(c, dead, w) ==
    IF dead["output"] > c.weight_increase_threshold_output
    THEN [w EXCEPT !["output"] = BumpWeights(@, c.weight_increase_bump)]
    ELSE w

\* line 122
TrainProcessDeadNeurons ==
    /\ At("process_dead_neurons")
    /\ w_in' = IF cfg.variant = "two" THEN process_dead_neurons(cfg, dead_fraction, w_in)
               ELSE process_dead_neurons_one(cfg, dead_fraction, w_in)
    /\ hist' = [hist EXCEPT !.weights = WriteThrough(@, w_in')]
    /\ tr' = Advance(tr)
    /\ UNCHANGED <<ds, layerVars, cfg, dead_fraction, opt, minibatch_idx, oplog>>

\* lines 123-124
TrainAppend ==
    /\ At("append")
    /\ hist' = [hist EXCEPT !.losses = Append(@, tr.batch_loss),
                            !.accuracies = Append(@, tr.batch_accuracy)]
    /\ tr' = Advance(tr)
    /\ UNCHANGED <<ds, layerVars, cfg, dead_fraction, w_in, opt, minibatch_idx, oplog>>

\* line 125, optimizer.step(): the optimizer consumes the accumulated gradients
\* and moves the weights it was given (one unit down when a gradient is pending)
OptimizerStep ==
    /\ At("step")
    /\ opt' = [opt EXCEPT !.steps = @ + 1]
    /\ w_in' = IF opt.grad THEN [l \in WeightLayers |-> BumpWeights(w_in[l], 0 - 1)]
               ELSE w_in
    /\ hist' = [hist EXCEPT !.weights = WriteThrough(@, w_in')]
    /\ oplog' = Append(oplog, "step")
    /\ tr' = Advance(tr)
    /\ UNCHANGED <<ds, layerVars, cfg, dead_fraction, minibatch_idx>>

\* line 126, optimizer.zero_grad()
OptimizerZeroGrad ==
    /\ At("zero_grad")
    /\ opt' = [opt EXCEPT !.grad = FALSE]
    /\ oplog' = Append(oplog, "zero_grad")
    /\ tr' = Advance(tr)
    /\ UNCHANGED <<ds, layerVars, cfg, dead_fraction, w_in, minibatch_idx, hist>>

\* lr * lr_decay_gamma on the fraction <<numerator, denominator>>
TimesGamma(lr) == <<lr[1] * GammaNum, lr[2] * GammaDen>>

\* lines 127-132: the learning rate after the decay statement of an iteration
LrAfterDecay(c, iteration, lr) ==
    IF c.lr_decay_step # Nothing /\ iteration > 0
    THEN IF iteration % c.lr_decay_step[1] = 0 THEN TimesGamma(lr) ELSE lr
    ELSE lr

TrainLrDecay ==
    /\ At("lr_decay")
    /\ opt' = [opt EXCEPT !.lr = LrAfterDecay(cfg, tr.iteration, @)]
    /\ tr' = Advance(tr)
    /\ UNCHANGED <<ds, layerVars, cfg, dead_fraction, w_in, minibatch_idx, hist, oplog>>

\* whether "if every is not None: if iteration % every == 0" holds
Every(every, iteration) == every # Nothing /\ iteration % every[1] = 0

\* _get_results_for_set, lines 52-58, after its chain forward: get_accuracy, then
\* get_losses, then (np.nanmean(losses), accuracy)
ResultsForSet(dataset, batch) ==
    LET a == GetAccuracy(TRUE, kind, batch, LabelsOf(dataset))
        g == GetLosses(ChainForward(layers), kind, batch, LabelsOf(dataset))
    IN  [loss |-> NanMean(g.losses), accuracy |-> a.acc, last |-> g]

\* what a Python call returns: None, or a (loss, accuracy) pair
ReturnNone == <<"None">>
ReturnPair(loss, accuracy) == <<"pair", loss, accuracy>>

\* valid() / test(), lines 60-68: the body ends without a return statement
EvaluateReturn(r) == ReturnNone

\* valid() / test() on a data set: the chain forward, the metrics and the
\* histories the results are appended to (lines 60-68).  _get_results_for_set
\* reads self.hidden_layer (line 53): on an object without that attribute the
\* call raises AttributeError before any layer runs.  On an object whose
\* histories were never assigned (no reset_results yet) the first append (lines
\* 62, 67) raises AttributeError after the chain forward and the metrics
Evaluate(dataset, which) ==
    IF HasHiddenLayer(cfg)
    THEN /\ ChainForwardOn(dataset, "eval_forward")
         /\ LET r == ResultsForSet(dataset, TrainSim(kind, dataset))
            IN  IF hist.assigned
                THEN /\ result' = [r.last EXCEPT !.op = which,
                                                 !.returned = EvaluateReturn(r)]
                     /\ hist' =
                            IF which = "valid"
                            THEN [hist EXCEPT !.valid_accuracies = Append(@, r.accuracy),
                                              !.valid_losses = Append(@, r.loss)]
                            ELSE [hist EXCEPT !.test_accuracies = Append(@, r.accuracy),
                                              !.test_losses = Append(@, r.loss)]
                ELSE /\ result' = [r.last EXCEPT !.op = which, !.err = ErrAttribute]
                     /\ hist' = hist
    ELSE /\ result' = [NoResult EXCEPT !.op = which, !.err = ErrAttribute]
         /\ UNCHANGED <<layers, post_batch, input_batch, has_batch_attrs, fwd_chain,
                        dead_fraction, hist, oplog>>

\* the position in train after a call of valid() / test()
AfterEvaluate(t) ==
    IF HasHiddenLayer(cfg) /\ hist.assigned THEN Advance(t) ELSE Raise(t, ErrAttribute)

\* lines 133-139
TrainValid ==
    /\ At("valid")
    /\ IF Every(cfg.valid_every, tr.iteration)
       THEN /\ Evaluate(ValidSet, "valid")
            /\ tr' = AfterEvaluate(tr)
       ELSE /\ UNCHANGED <<layers, post_batch, input_batch, has_batch_attrs, fwd_chain,
                           result, dead_fraction, hist, oplog>>
            /\ tr' = Advance(tr)
    /\ UNCHANGED <<ds, kind, cfg, w_in, opt, minibatch_idx>>

\* lines 140-146
TrainTest ==
    /\ At("test")
    /\ IF Every(cfg.test_every, tr.iteration)
       THEN /\ Evaluate(TestSet, "test")
            /\ tr' = AfterEvaluate(tr)
       ELSE /\ UNCHANGED <<layers, post_batch, input_batch, has_batch_attrs, fwd_chain,
                           result, dead_fraction, hist, oplog>>
            /\ tr' = Advance(tr)
    /\ UNCHANGED <<ds, kind, cfg, w_in, opt, minibatch_idx>>

\* (get_weight_copy that returns the weight arrays themselves)
get_weight_copy_alias(w) == <<ArrayRef(w, "hidden"), ArrayRef(w, "output")>>
\* AbstractTwoLayer.get_weight_copy, lines 225-226
get_weight_copy(w) == <<ArrayCopy(w, "hidden"), ArrayCopy(w, "output")>>

\* AbstractOneLayer.get_weight_copy, line 182: self.loss.output_layer.w_in.copy();
\* the loss layer has no attribute output_layer
get_weight_copy_one(w) == [err |-> ErrAttribute, value |-> <<>>]

\* self.get_weight_copy() on the training object
WeightCopy(c, w) ==
    IF c.variant = "two" THEN [err |-> NoErr, value |-> get_weight_copy(w)]
    ELSE get_weight_copy_one(w)

\* lines 147-151
TrainSave ==
    /\ At("save")
    /\ IF cfg.save_to # Nothing /\ tr.iteration % cfg.save_every = 0
       THEN LET copy == WeightCopy(cfg, w_in)
            IN  IF copy.err = NoErr
                THEN /\ hist' = [hist EXCEPT !.weights = Append(@, copy.value)]
                     /\ tr' = Advance([tr EXCEPT !.saves = @ + 1])
                ELSE /\ hist' = hist
                     /\ tr' = Raise(tr, copy.err)
       ELSE /\ hist' = hist
            /\ tr' = Advance(tr)
    /\ UNCHANGED <<ds, layerVars, cfg, dead_fraction, w_in, opt, minibatch_idx, oplog>>

\* line 152: return self.test()
TrainFinalTest ==
    /\ tr.pc = "final_test"
    /\ Evaluate(TestSet, "test")
    /\ tr' = IF HasHiddenLayer(cfg) /\ hist.assigned
             THEN [tr EXCEPT !.pc = "done", !.ret = result'.returned]
             ELSE Raise(tr, ErrAttribute)
    /\ UNCHANGED <<ds, kind, cfg, w_in, opt, minibatch_idx>>

InitTrain ==
    /\ kind \in LossKinds
    /\ layers = InitLayers
    /\ post_batch = <<>>
    /\ input_batch = <<>>
    /\ has_batch_attrs = FALSE
    /\ fwd_chain = [l \in LayerIds |-> <<>>]
    /\ result = NoResult
    /\ \E c \in Configs : NewTraining(c)
    /\ ds = NoDataset

NextTrain ==
    \/ TrainReset
    \/ GetMinibatch
    \/ TrainForward
    \/ TrainBackward
    \/ TrainBatchLoss
    \/ TrainBatchAccuracy
    \/ TrainProcessDeadNeurons
    \/ TrainAppend
    \/ OptimizerStep
    \/ OptimizerZeroGrad
    \/ TrainLrDecay
    \/ TrainValid
    \/ TrainTest
    \/ TrainSave
    \/ TrainFinalTest

SpecTrain == InitTrain /\ [][NextTrain]_vars

----------------------------------------------------------------------------
(* SpecOneLayer: train on a training object derived from AbstractOneLayer *)

InitOneLayer ==
    /\ kind \in LossKinds
    /\ layers = InitLayers
    /\ post_batch = <<>>
    /\ input_batch = <<>>
    /\ has_batch_attrs = FALSE
    /\ fwd_chain = [l \in LayerIds |-> <<>>]
    /\ result = NoResult
    /\ \E c \in OneLayerConfigs : NewTraining(c)
    /\ ds = NoDataset

SpecOneLayer == InitOneLayer /\ [][NextTrain]_vars

----------------------------------------------------------------------------
(* SpecRetrain: train called again on the same training object *)

\* the train calls made on one object
Runs == {1, 2}

\* arguments of the runs: minibatches, learning-rate decay and validation every
\* second iteration, test and checkpoints on or off
RetrainConfigs ==
    {c \in Configs : /\ c.minibatch_size = Some(2)
                     /\ c.lr_decay_step = Some(2)
                     /\ c.valid_every = Some(2)}

InitRetrain ==
    /\ kind \in LossKinds
    /\ layers = InitLayers
    /\ post_batch = <<>>
    /\ input_batch = <<>>
    /\ has_batch_attrs = FALSE
    /\ fwd_chain = [l \in LayerIds |-> <<>>]
    /\ result = NoResult
    /\ \E c \in RetrainConfigs : NewTraining(c)
    /\ ds = NoDataset

\* train(...) is called again after it has returned: its local variables are
\* new, the object keeps its fields
TrainAgain ==
    /\ tr.pc = "done"
    /\ tr.run + 1 \in Runs
    /\ tr' = [tr EXCEPT !.pc = "start", !.stmt = 0, !.iteration = 0,
                        !.minibatch = <<>>, !.batch_loss = [unset |-> TRUE],
                        !.batch_accuracy = <<0, 0>>, !.ret = <<"unset">>,
                        !.run = @ + 1]
    /\ UNCHANGED <<ds, layerVars, cfg, dead_fraction, w_in, opt, minibatch_idx, hist, oplog>>

NextRetrain == NextTrain \/ TrainAgain

SpecRetrain == InitRetrain /\ [][NextRetrain]_vars

----------------------------------------------------------------------------
(* SpecCheckpoint: train with every checkpoint interval, save_to set or None *)

\* train's save_every argument
SaveIntervals == {1, 2, 3}

\* arguments of the runs: minibatches, no learning-rate decay and no test
\* evaluation inside the loop; validation and checkpoints on or off
CheckpointConfigs ==
    {[c EXCEPT !.save_every = e] :
         c \in {d \in Configs : /\ d.minibatch_size = Some(2)
                                /\ d.lr_decay_step = Nothing
                                /\ d.test_every = Nothing},
         e \in SaveIntervals}

InitCheckpoint ==
    /\ kind \in LossKinds
    /\ layers = InitLayers
    /\ post_batch = <<>>
    /\ input_batch = <<>>
    /\ has_batch_attrs = FALSE
    /\ fwd_chain = [l \in LayerIds |-> <<>>]
    /\ result = NoResult
    /\ \E c \in CheckpointConfigs : NewTraining(c)
    /\ ds = NoDataset

SpecCheckpoint == InitCheckpoint /\ [][NextTrain]_vars

----------------------------------------------------------------------------
(* SpecMinibatch: _get_minibatch called again and again on a training object, *)
(* for every length of the training set and every minibatch size             *)

\* the training sets load_data and the constructor's shuffle can leave: n
\* different samples in any order
TrainBatches ==
    UNION {{[i \in 1 .. n |-> Sample(p[i], p[i] % NNeurons)] : p \in IdxPermutations(n)} :
               n \in 1 .. MaxLen}

\* gd_parameters.minibatch_size: None, or a size up to one above the longest set
MinibatchSizes == {Nothing} \cup {Some(k) : k \in 1 .. (MaxLen + 1)}

MinibatchConfigs ==
    {[DefaultConfig EXCEPT !.train_batch = t, !.minibatch_size = m] :
         t \in TrainBatches, m \in MinibatchSizes}

InitMinibatch ==
    /\ kind \in LossKinds
    /\ layers = InitLayers
    /\ post_batch = <<>>
    /\ input_batch = <<>>
    /\ has_batch_attrs = FALSE
    /\ fwd_chain = [l \in LayerIds |-> <<>>]
    /\ result = NoResult
    /\ \E c \in MinibatchConfigs : NewTraining(c)
    /\ ds = NoDataset

\* minibatch = self._get_minibatch(), as many times as train would call it
CallGetMinibatch ==
    /\ Len(oplog) < cfg.iterations
    /\ LET r == GetMinibatchResult(cfg, minibatch_idx, cfg.train_batch)
       IN  /\ minibatch_idx' = r.idx
           /\ tr' = [tr EXCEPT !.minibatch = r.samples]
    /\ oplog' = Append(oplog, "get_minibatch")
    /\ UNCHANGED <<ds, layerVars, cfg, dead_fraction, w_in, opt, hist>>

NextMinibatch == CallGetMinibatch

SpecMinibatch == InitMinibatch /\ [][NextMinibatch]_vars

----------------------------------------------------------------------------
(* Claims about SpikeDataset, checked under SpecData *)

\* number of samples of dataset d that carry spike train s and label l
PairCount(d, s, l) ==
    Cardinality({i \in 1 .. Len(d.spikes) : d.spikes[i] = s /\ d.labels[i] = l})

\* C11: a SpikeDataset has as many spikes as labels in every reachable state:
\* after construction, after dataset[a:b] (which yields the same index range of
\* both fields) and after shuffle; constructing one from fields of unequal size
\* fails, and only then.
C11_LengthInvariant ==
    /\ ds.obj.err = NoErr => Len(ds.obj.spikes) = Len(ds.obj.labels)
    /\ ds.op = "construct" =>
           (ds.obj.err = ErrAssertion <=> ds.args[1] # ds.args[2])
    /\ ds.op = "getitem" =>
           /\ ds.obj.err = NoErr
           /\ \A i \in 1 .. Len(ds.obj.spikes) :
                  /\ ds.args[1] + i <= Len(ds.before.spikes)
                  /\ ds.args[1] + i <= ds.args[2]
                  /\ ds.obj.spikes[i] = ds.before.spikes[ds.args[1] + i]
                  /\ ds.obj.labels[i] = ds.before.labels[ds.args[1] + i]
           /\ Len(ds.obj.spikes) =
                  Cardinality({i \in 1 .. Len(ds.before.spikes) :
                                  ds.args[1] < i /\ i <= ds.args[2]})

\* a proper slice of a dataset of three samples
C11_Witness ==
    /\ ds.op = "getitem"
    /\ ds.args = <<1, 3>>
    /\ Len(ds.before.spikes) = 3
    /\ ds.obj.spikes = <<2, 1>>
    /\ ds.obj.labels = <<0, 1>>

\* C12: shuffle is a pairing-preserving permutation: the dataset has the same
\* length after shuffle() as before, and the multiset of (spike train, label)
\* pairs after the shuffle equals the multiset before it.
C12_ShufflePreservesPairs ==
    ds.op = "shuffle" =>
        /\ Len(ds.obj.spikes) = Len(ds.before.spikes)
        /\ Len(ds.obj.labels) = Len(ds.before.labels)
        /\ \A s \in SpikeTrains : \A l \in DataLabels :
               PairCount(ds.obj, s, l) = PairCount(ds.before, s, l)

\* a shuffle that moved samples, on a dataset with a repeated pair
C12_Witness ==
    /\ ds.op = "shuffle"
    /\ ds.before.spikes = <<1, 2, 1>>
    /\ ds.before.labels = <<0, 1, 0>>
    /\ ds.obj.spikes = <<2, 1, 1>>
    /\ ds.obj.labels = <<1, 0, 0>>

----------------------------------------------------------------------------
(* Claims about the layer protocol, checked under Spec *)

Reverse(xs) == [i \in 1 .. Len(xs) |-> xs[Len(xs) + 1 - i]]

\* the walk of a backward call follows the recorded ancestors from the loss layer
\* and stops at a layer that has none
WalkFollowsAncestors ==
    LET path == <<"loss">> \o result.walk
    IN  /\ \A i \in 1 .. Len(result.walk) :
               result.walk[i] = layers[path[i]].ancestor_layer
        /\ layers[path[Len(path)]].ancestor_layer = None

\* C2: after the chained forward loss(output_layer(hidden_layer(batch))),
\* loss.backward(labels) raises no ordering error and invokes backward on
\* output_layer and then on hidden_layer, once each, the reverse of the forward
\* order; every error-free walk follows the ancestors and ends at a layer that
\* has no recorded ancestor.
C2_BackwardReversesChain ==
    result.op = "backward" =>
        /\ fwd_chain["loss"] = <<"hidden", "output", "loss">> =>
               /\ result.err = NoErr
               /\ result.walk = <<"output", "hidden">>
               /\ <<"loss">> \o result.walk = Reverse(fwd_chain["loss"])
        /\ result.err = NoErr => WalkFollowsAncestors

C2_Witness ==
    /\ result.op = "backward"
    /\ fwd_chain["loss"] = <<"hidden", "output", "loss">>
    /\ result.walk = <<"output", "hidden">>
    /\ result.err = NoErr
    /\ layers["hidden"].ran_backward

\* C3: backward(labels) and get_losses(labels) on a loss layer whose forward has
\* never run fail with the ordering error "Run forward first!"; no set_error call
\* is made and no layer's backward is invoked.
C3_OrderingErrorBeforeForward ==
    (result.op \in {"backward", "get_losses"} /\ fwd_chain["loss"] = <<>>) =>
        /\ result.err = ErrForwardFirst
        /\ result.set_errors = <<>>
        /\ result.walk = <<>>
        /\ \A l \in LayerIds : ~layers[l].ran_backward

C3_Witness ==
    /\ result.op = "backward"
    /\ fwd_chain["loss"] = <<>>
    /\ result.err = ErrForwardFirst
    /\ layers["output"].ran_forward
    /\ layers["output"].ancestor_layer = "hidden"

\* C4 (as claimed): get_accuracy(labels) on a loss layer whose forward has never
\* run fails with the same ordering error as backward and get_losses.
C4_AccuracyOrderingError ==
    (result.op = "get_accuracy" /\ fwd_chain["loss"] = <<>>) =>
        result.err = ErrForwardFirst

\* C5 (as claimed): when a call of a loss layer's forward has returned, the layer
\* is FORWARDED: ran_forward is true and ran_backward is false.
C5_ForwardReentersForwarded ==
    (result.op = "call" /\ result.err = NoErr /\ result.on = "loss") =>
        /\ layers["loss"].ran_forward
        /\ ~layers["loss"].ran_backward

\* C13 (as claimed): layer(batch) runs forward on the batch; layer((batch,
\* ancestor)) records the ancestor as ancestor_layer and then runs forward; every
\* other argument (a value that is not a batch, a tuple whose first element is
\* not a batch or whose second is not a Layer, a tuple that is not a pair) fails
\* with "Arguments not recognized.", runs no forward and leaves ancestor_layer
\* as it was.
C13_CallOperator ==
    [][result'.op = "call" =>
          LET l == result'.on
              a == result'.arg
              Forwarded == /\ result'.err = NoErr
                           /\ layers'[l].ran_forward
                           /\ fwd_chain'[l] # <<>>
                           /\ l = "loss" => has_batch_attrs'
          IN  IF ~a.is_tuple /\ a.is_batch
              THEN /\ Forwarded
                   /\ layers'[l].ancestor_layer = layers[l].ancestor_layer
              ELSE IF a.is_tuple /\ a.size = 2 /\ a.is_batch /\ a.second_is_layer
              THEN /\ Forwarded
                   /\ layers'[l].ancestor_layer = a.layer
              ELSE /\ result'.err = ErrArguments
                   /\ layers' = layers
                   /\ fwd_chain' = fwd_chain
                   /\ post_batch' = post_batch
                   /\ has_batch_attrs' = has_batch_attrs]_vars

----------------------------------------------------------------------------
(* Claims about the loss layers' methods, checked under SpecLoss *)

Spiked(times, j) == ~IsNan(times[j])
SetErrorsOf(b) == {i \in 1 .. Len(result.set_errors) : result.set_errors[i].sample = b}

\* C8: TTFS missing-spike policy.  For every sample whose label neuron has no
\* first spike, get_accuracy scores the sample 0 and backward makes no set_error
\* call for any neuron of the sample; the samples whose label neuron spiked still
\* get their label error injected, and backward still walks to the ancestors.
C8_MissingLabelSpike ==
    kind = "TTFS" =>
        /\ result.op = "get_accuracy" =>
               \A b \in 1 .. Len(post_batch) :
                   ~Spiked(post_batch[b], result.labels[b]) => result.scores[b] = 0
        /\ result.op = "backward" =>
               /\ \A b \in 1 .. Len(post_batch) :
                      IF Spiked(post_batch[b], result.labels[b])
                      THEN \E i \in SetErrorsOf(b) :
                               /\ result.set_errors[i].nrn = result.labels[b]
                               /\ result.set_errors[i].formula = "label"
                      ELSE SetErrorsOf(b) = {}
               /\ result.err = NoErr
               /\ result.walk = <<"output", "hidden">>

C8_Witness ==
    /\ kind = "TTFS"
    /\ result.op = "backward"
    /\ Len(post_batch) = 2
    /\ ~Spiked(post_batch[1], result.labels[1])
    /\ \E j \in Neurons : Spiked(post_batch[1], j)
    /\ Spiked(post_batch[2], result.labels[2])
    /\ SetErrorsOf(1) = {}
    /\ SetErrorsOf(2) # {}
    /\ result.walk = <<"output", "hidden">>

\* the samples of the stored batch that the TTFS rule counts as correct: the label
\* neuron spiked, and no neuron that spiked did so strictly earlier
TTFSCorrectSamples ==
    {b \in 1 .. Len(post_batch) :
        /\ Spiked(post_batch[b], result.labels[b])
        /\ ~\E j \in Neurons :
               /\ Spiked(post_batch[b], j)
               /\ post_batch[b][j] < post_batch[b][result.labels[b]]}

ExampleTimes == [j \in Neurons |-> IF j = 0 THEN 1 ELSE IF j = 1 THEN NaN ELSE 2]

\* C9: TTFS get_accuracy returns the fraction of correct samples, a sample being
\* correct iff its label neuron spiked and its first-spike time is <= that of
\* every neuron that spiked (ties correct, silent neurons ignored); the times
\* [0.01, missing, 0.02] give 1 for label 0 and 0 for label 2.
C9_TTFSAccuracy ==
    (kind = "TTFS" /\ result.op = "get_accuracy") =>
        /\ result.err = NoErr
        /\ result.acc = <<Cardinality(TTFSCorrectSamples), Len(post_batch)>>
        /\ (post_batch = <<ExampleTimes>> /\ result.labels = <<0>>) => result.acc = <<1, 1>>
        /\ (post_batch = <<ExampleTimes>> /\ result.labels = <<2>>) => result.acc = <<0, 1>>

\* a tie that counts as correct beside a silent neuron, and an incorrect sample
C9_Witness ==
    /\ kind = "TTFS"
    /\ result.op = "get_accuracy"
    /\ Len(post_batch) = 2
    /\ result.labels = <<0, 2>>
    /\ post_batch[1] = [j \in Neurons |-> IF j = 1 THEN NaN ELSE 2]
    /\ post_batch[2] = ExampleTimes
    /\ result.acc = <<1, 2>>

\* the samples of the stored batch in which the label's maximum is strictly
\* greater than every other neuron's
VMaxCorrectSamples ==
    {b \in 1 .. Len(post_batch) :
        \A j \in Neurons \ {result.labels[b]} :
            post_batch[b][result.labels[b]] > post_batch[b][j]}

\* C10: VMax get_accuracy returns the fraction of correct samples, a sample being
\* correct iff the label neuron's maximum is strictly greater than every other
\* neuron's; equal maxima give accuracy 0 for every label.
C10_VMaxAccuracy ==
    (kind = "VMax" /\ result.op = "get_accuracy") =>
        /\ result.err = NoErr
        /\ result.acc = <<Cardinality(VMaxCorrectSamples), Len(post_batch)>>
        /\ (\A b \in 1 .. Len(post_batch) : \A i, j \in Neurons :
                post_batch[b][i] = post_batch[b][j]) => result.acc[1] = 0

\* one sample whose label ties another neuron at the maximum, one correct sample
C10_Witness ==
    /\ kind = "VMax"
    /\ result.op = "get_accuracy"
    /\ Len(post_batch) = 2
    /\ result.labels = <<0, 0>>
    /\ post_batch[1] = [j \in Neurons |-> IF j = 2 THEN 0 ELSE 1]
    /\ post_batch[2] = [j \in Neurons |-> IF j = 0 THEN 1 ELSE 0]
    /\ result.acc = <<1, 2>>

----------------------------------------------------------------------------
(* Claims about train, checked under SpecTrain and its restrictions *)

\* C1: in train the calls of every iteration come in the order chain forward,
\* loss.backward (walking to every ancestor), optimizer.step, optimizer.zero_grad:
\* a step directly follows the backward of its minibatch, a backward directly
\* follows the forward of its minibatch and completes on both upstream layers,
\* zero_grad follows every step, and every later forward comes after it.
C1_TrainOrder ==
    /\ tr.pc # "failed"
    /\ \A i \in 1 .. Len(oplog) :
           /\ oplog[i] = "backward" => (i > 1 /\ oplog[i - 1] = "forward")
           /\ oplog[i] = "step" => (i > 1 /\ oplog[i - 1] = "backward")
           /\ oplog[i] = "zero_grad" => (i > 1 /\ oplog[i - 1] = "step")
           /\ (oplog[i] = "step" /\ i < Len(oplog)) => oplog[i + 1] = "zero_grad"
           /\ (oplog[i] \in {"forward", "eval_forward"} /\ i > 1) =>
                  oplog[i - 1] \in {"zero_grad", "eval_forward"}
    /\ result.op = "backward" =>
           /\ result.err = NoErr
           /\ result.walk = <<"output", "hidden">>
           /\ \A l \in LayerIds : layers[l].ran_backward

C1_Witness ==
    /\ tr.pc = "done"
    /\ Cardinality({i \in 1 .. Len(oplog) : oplog[i] = "step"}) = cfg.iterations
    /\ Cardinality({i \in 1 .. Len(oplog) : oplog[i] = "backward"}) = cfg.iterations
    /\ Cardinality({i \in 1 .. Len(oplog) : oplog[i] = "eval_forward"}) > 1

\* the number of iterations of train's loop that have completed, defined between
\* two iterations and after the loop
BetweenIterations ==
    \/ tr.pc = "body" /\ tr.stmt = 1
    \/ tr.pc \in {"final_test", "done"}
Completed == IF tr.pc = "body" THEN tr.iteration ELSE cfg.iterations

\* C6 (as claimed): after N completed iterations the learning rate is
\* initial_lr * gamma^floor(N / lr_decay_step), and initial_lr when lr_decay_step
\* is None.
C6_DecayPerCompletedStep ==
    BetweenIterations =>
        LET k == IF cfg.lr_decay_step = Nothing THEN 0
                 ELSE Completed \div cfg.lr_decay_step[1]
        IN  opt.lr = <<LrNum * GammaNum ^ k, LrDen * GammaDen ^ k>>

\* C7: process_dead_neurons bumps at most one layer.  A hidden dead fraction
\* strictly above its threshold adds the bump to every hidden weight and leaves
\* the output weights alone, whatever the output dead fraction; otherwise an
\* output dead fraction strictly above its threshold adds the bump to every
\* output weight only; otherwise no weight changes.
C7_DeadNeuronBump ==
    [][At("process_dead_neurons") =>
          LET Bumped(l) == /\ Len(w_in'[l]) = Len(w_in[l])
                           /\ \A i \in 1 .. Len(w_in[l]) :
                                  w_in'[l][i] = w_in[l][i] + cfg.weight_increase_bump
              Same(l) == w_in'[l] = w_in[l]
          IN  IF dead_fraction["hidden"] > cfg.weight_increase_threshold_hidden
              THEN Bumped("hidden") /\ Same("output")
              ELSE IF dead_fraction["output"] > cfg.weight_increase_threshold_output
              THEN Bumped("output") /\ Same("hidden")
              ELSE Same("hidden") /\ Same("output")]_vars

\* the first iteration has just bumped the hidden layer although the output
\* layer's dead fraction exceeds its threshold as well
C7_Witness ==
    /\ At("append")
    /\ tr.iteration = 0
    /\ dead_fraction["hidden"] > cfg.weight_increase_threshold_hidden
    /\ dead_fraction["output"] > cfg.weight_increase_threshold_output
    /\ w_in["hidden"] = <<100 + Bump, 200 + Bump>>
    /\ w_in["output"] = <<100, 200>>

Last(xs) == xs[Len(xs)]

\* C14 (as claimed): valid() and test() return the pair (loss, accuracy) they
\* computed on the validation / test set, and train returns the pair of its final
\* test evaluation.
C14_EvaluationsReturnPair ==
    /\ result.op = "valid" =>
           result.returned = ReturnPair(Last(hist.valid_losses), Last(hist.valid_accuracies))
    /\ result.op = "test" =>
           result.returned = ReturnPair(Last(hist.test_losses), Last(hist.test_accuracies))
    /\ tr.pc = "done" =>
           tr.ret = ReturnPair(Last(hist.test_losses), Last(hist.test_accuracies))

\* the samples of a data set whose loss is defined: every sample under VMax, the
\* samples whose label neuron spiked under TTFS
DefinedSamples(dataset) ==
    {b \in 1 .. Len(dataset) :
        kind = "VMax" \/ Spiked(SimSample(kind, dataset[b]), dataset[b].label)}

\* the aggregate the claim describes: the mean over the defined samples, the
\* undefined value when there is none
AggregateOf(dataset) ==
    [nan |-> DefinedSamples(dataset) = {}, over |-> DefinedSamples(dataset)]

\* C15: the loss reported in train and in valid / test is the mean over the
\* samples whose loss is defined; for a batch without such a sample it is the
\* undefined value, nothing raises, and the iteration still appends to the
\* histories and steps the optimizer.
C15_AggregateTolerant ==
    /\ tr.pc # "failed"
    /\ After("get_losses") => tr.batch_loss = AggregateOf(tr.minibatch)
    /\ After("append") =>
           /\ Len(hist.losses) = tr.iteration + 1
           /\ Last(hist.losses) = AggregateOf(tr.minibatch)
    /\ After("step") => opt.steps = tr.iteration + 1
    /\ BetweenIterations =>
           /\ Len(hist.losses) = Completed
           /\ Len(hist.accuracies) = Completed
           /\ opt.steps = Completed
    /\ \A i \in 1 .. Len(hist.valid_losses) : hist.valid_losses[i] = AggregateOf(ValidSet)
    /\ \A i \in 1 .. Len(hist.test_losses) : hist.test_losses[i] = AggregateOf(TestSet)

\* a finished run whose minibatches were partly and wholly degenerate, with a
\* validation mean over one of two samples and an undefined test loss
C15_Witness ==
    /\ tr.pc = "done"
    /\ kind = "TTFS"
    /\ cfg.minibatch_size = Some(2)
    /\ opt.steps = cfg.iterations
    /\ hist.losses[1] = MeanOver({1}, FALSE)
    /\ hist.losses[2] = MeanOver({}, TRUE)
    /\ Len(hist.losses) = cfg.iterations
    /\ hist.valid_losses # <<>>
    /\ Last(hist.valid_losses) = MeanOver({1}, FALSE)
    /\ Last(hist.test_losses) = MeanOver({}, TRUE)

RECURSIVE SumStored(_, _, _)
SumStored(calls, b, n) ==
    IF n = 0 THEN <<0, 1>>
    ELSE FracAdd(StoredError(calls, b, n - 1), SumStored(calls, b, n - 1))

\* C16: after VMax backward every neuron j of every sample holds one injected
\* error, equal to (softmax(v)_j - 1{j = label}) / batch size: softmax(v)_j /
\* batch size for a non-label neuron, (softmax(v)_label - 1) / batch size for
\* the label neuron; the errors of one sample sum to zero.
C16_VMaxGradient ==
    (kind = "VMax" /\ result.op = "backward") =>
        \A b \in 1 .. Len(post_batch) :
            LET v == post_batch[b]
                n == Len(post_batch)
                softmax(j) == <<Exp(v[j]), VMax_sum0(v)>>
                one_hot(j) == IF j = result.labels[b] THEN <<1, 1>> ELSE <<0, 1>>
                expected(j) == LET d == FracSub(softmax(j), one_hot(j))
                               IN  <<d[1], d[2] * n>>
            IN  /\ \A j \in Neurons :
                       /\ CallsOn(result.set_errors, b, j) # {}
                       /\ FracEq(StoredError(result.set_errors, b, j), expected(j))
                /\ SumStored(result.set_errors, b, NNeurons)[1] = 0

\* a batch of two samples with different maxima and different labels
C16_Witness ==
    /\ kind = "VMax"
    /\ result.op = "backward"
    /\ Len(post_batch) = 2
    /\ result.labels = <<0, 2>>
    /\ post_batch[1] = [j \in Neurons |-> IF j = 0 THEN 1 ELSE 0]
    /\ post_batch[2] = [j \in Neurons |-> IF j = 1 THEN 1 ELSE 0]
    /\ StoredError(result.set_errors, 1, 0) = <<2 * 2 - 4 * 2, 8 * 2>>
    /\ StoredError(result.set_errors, 2, 1) = <<2, 8>>

\* the set_error calls that backward made for neuron j of sample b
CallsFor(b, j) ==
    {i \in 1 .. Len(result.set_errors) :
        result.set_errors[i].sample = b /\ result.set_errors[i].nrn = j}

\* C17: in TTFS backward, for a sample whose label neuron spiked, set_error is
\* called exactly once for the label neuron and exactly once for every other
\* neuron that has a first spike, each time at the neuron's stored first-spike
\* event index, and never for a neuron without a first spike; the label neuron
\* gets the label formula, the others the non-label formula.
C17_TTFSInjection ==
    (kind = "TTFS" /\ result.op = "backward") =>
        \A b \in 1 .. Len(post_batch) :
            Spiked(post_batch[b], result.labels[b]) =>
                \A j \in Neurons :
                    IF Spiked(post_batch[b], j)
                    THEN /\ Cardinality(CallsFor(b, j)) = 1
                         /\ \A i \in CallsFor(b, j) :
                                /\ result.set_errors[i].idx = FirstSpikeIdxs(post_batch[b])[j]
                                /\ result.set_errors[i].formula =
                                       IF j = result.labels[b] THEN "label" ELSE "nonlabel"
                    ELSE CallsFor(b, j) = {}

\* the label neuron spiked second, another neuron first, the third not at all
C17_Witness ==
    /\ kind = "TTFS"
    /\ result.op = "backward"
    /\ post_batch = <<[j \in Neurons |-> IF j = 0 THEN 2 ELSE IF j = 1 THEN NaN ELSE 1]>>
    /\ result.labels = <<0>>
    /\ result.set_errors = <<SetError(1, 1, 0, "label"), SetError(1, 0, 2, "nonlabel")>>

\* C18: in train, loss.backward, get_losses and get_accuracy read the summaries
\* that the forward pass on the current minibatch left: when one of them is about
\* to run, the last forward was on this minibatch and the labels are as many as
\* the stored summaries; validation and test forwards come only after the
\* optimizer step (and zero_grad) of the iteration, never between a minibatch's
\* forward and its step.
C18_SummariesOfSameMinibatch ==
    /\ (At("backward") \/ At("get_losses") \/ At("get_accuracy")) =>
           /\ input_batch = tr.minibatch
           /\ post_batch = TrainSim(kind, tr.minibatch)
           /\ Len(LabelsOf(tr.minibatch)) = Len(post_batch)
    /\ \A i \in 1 .. Len(oplog) :
           /\ oplog[i] = "eval_forward" =>
                  (i > 1 /\ oplog[i - 1] \in {"zero_grad", "eval_forward"})
           /\ (oplog[i] = "forward" /\ i < Len(oplog)) => oplog[i + 1] = "backward"
           /\ (oplog[i] = "backward" /\ i < Len(oplog)) => oplog[i + 1] = "step"

\* the second iteration is about to read the metrics of its one-sample minibatch
\* after the first iteration validated on the two-sample validation set
C18_Witness ==
    /\ At("get_losses")
    /\ tr.iteration = 1
    /\ cfg.minibatch_size = Some(2)
    /\ tr.minibatch = <<Sample(3, 1)>>
    /\ input_batch = tr.minibatch
    /\ Len(post_batch) = 1
    /\ \E i \in 1 .. Len(oplog) : oplog[i] = "eval_forward"

IsPrefix(xs, ys) == Len(xs) <= Len(ys) /\ SubSeq(ys, 1, Len(xs)) = xs

\* C19: every train call starts by making all histories (losses, accuracies,
\* validation, test, weight snapshots) empty, also a second call on the same
\* object; during the run every history only grows at its end; after N completed
\* iterations the loss and accuracy histories hold N entries each.
C19_HistoriesResetAndAppendOnly ==
    [][/\ (tr.pc = "start" /\ tr'.pc # "start") => hist' = EmptyHist
       /\ (tr.pc # "start" /\ tr'.pc # "start") =>
              \A f \in Histories : IsPrefix(hist[f], hist'[f])
       /\ BetweenIterations' =>
              /\ Len(hist'.losses) = Completed'
              /\ Len(hist'.accuracies) = Completed']_vars

\* the second run has just reset the histories that the first run had filled
C19_Witness ==
    /\ tr.run = 2
    /\ tr.pc = "body"
    /\ tr.stmt = 1
    /\ tr.iteration = 0
    /\ hist = EmptyHist
    /\ opt.steps = cfg.iterations
    /\ cfg.save_to # Nothing
    /\ cfg.test_every # Nothing

\* C20 (as claimed): on the one-layer variant valid() and test() evaluate a data
\* set through output_layer and the loss, get_weight_copy returns output_layer's
\* weights, and train completes without a missing-attribute error.
C20_OneLayerDriver ==
    /\ tr.pc # "failed"
    /\ result.op \in {"valid", "test"} =>
           /\ result.err = NoErr
           /\ fwd_chain["loss"] = <<"output", "loss">>
           /\ input_batch = IF result.op = "valid" THEN ValidSet ELSE TestSet
    /\ \A i \in 1 .. Len(hist.weights) : hist.weights[i] = w_in["output"]

\* the iteration indices below n at which train takes a checkpoint
CheckpointIterations(n, every) == {i \in 0 .. n - 1 : i % every = 0}

\* C21: with save_to set, after N completed iterations the weight-snapshot list
\* holds one entry for each iteration index i < N with i % save_every = 0, and
\* one file write was made for each; the snapshot of an iteration is appended
\* after that iteration's optimizer step and holds the weights that step left;
\* no later step of train (optimizer update, dead-neuron bump) changes the
\* content of a snapshot already taken; with save_to None no snapshot is taken
\* and nothing is written.
C21_Checkpoints ==
    [][/\ cfg.save_to = Nothing => (hist'.weights = <<>> /\ tr'.saves = 0)
       /\ (cfg.save_to # Nothing /\ BetweenIterations') =>
              LET n == Cardinality(CheckpointIterations(Completed', cfg.save_every))
              IN  Len(hist'.weights) = n /\ tr'.saves = n
       /\ (At("save") /\ cfg.save_to # Nothing /\ tr.iteration % cfg.save_every = 0) =>
              /\ opt.steps = tr.iteration + 1
              /\ Len(hist'.weights) = Len(hist.weights) + 1
              /\ SnapshotData(Last(hist'.weights)) = <<w_in["hidden"], w_in["output"]>>
       /\ After("step") => w_in' = w_in
       /\ \A i \in 1 .. Len(hist.weights) :
              /\ i <= Len(hist'.weights)
              /\ SnapshotData(hist'.weights[i]) = SnapshotData(hist.weights[i])]_vars

\* a finished run with two checkpoints, taken in iterations 0 and 3: the first
\* snapshot still holds the weights of the first iteration although the weights
\* were bumped and updated afterwards, and the two snapshots differ
C21_Witness ==
    /\ tr.pc = "done"
    /\ cfg.save_to # Nothing
    /\ cfg.save_every = 3
    /\ Len(hist.weights) = 2
    /\ tr.saves = 2
    /\ SnapshotData(hist.weights[1]) = <<<<99, 199>>, <<99, 199>>>>
    /\ SnapshotData(hist.weights[2]) # SnapshotData(hist.weights[1])
    /\ SnapshotData(hist.weights[2]) = <<w_in["hidden"], w_in["output"]>>

----------------------------------------------------------------------------
(* Claims about _get_minibatch, checked under SpecMinibatch *)

\* xs is a run of consecutive samples of the training set ys
IsContiguousSlice(xs, ys) ==
    \E a \in 0 .. Len(ys) : a + Len(xs) <= Len(ys) /\ xs = SubSeq(ys, a + 1, a + Len(xs))

\* C22: for a non-empty training set and a positive minibatch_size, after any
\* number of _get_minibatch calls the cursor satisfies 0 <= _minibatch_idx <
\* len(train_batch), and every minibatch returned is a non-empty contiguous slice
\* of the training set with at most minibatch_size samples; with minibatch_size
\* None every call returns the whole training set and the cursor stays at 0.
C22_MinibatchCursor ==
    IF cfg.minibatch_size = Nothing
    THEN /\ minibatch_idx = 0
         /\ oplog # <<>> => tr.minibatch = cfg.train_batch
    ELSE /\ 0 <= minibatch_idx
         /\ minibatch_idx < Len(cfg.train_batch)
         /\ oplog # <<>> =>
                /\ tr.minibatch # <<>>
                /\ Len(tr.minibatch) <= cfg.minibatch_size[1]
                /\ IsContiguousSlice(tr.minibatch, cfg.train_batch)

\* three calls on three samples with minibatch_size 2: the second call returned
\* the one sample left at the end of the set, the third again two samples, and
\* the cursor has wrapped to 0
C22_Witness ==
    /\ Len(cfg.train_batch) = 3
    /\ cfg.minibatch_size = Some(2)
    /\ Len(oplog) = 3
    /\ minibatch_idx = 0
    /\ tr.minibatch = SubSeq(cfg.train_batch, 2, 3)

\* position (0-based) of a sample in the training set; the samples differ
PositionOf(sample) == (CHOOSE i \in 1 .. Len(cfg.train_batch) : cfg.train_batch[i] = sample) - 1

\* C23 (as claimed): successive minibatches tile the training set cyclically:
\* the first minibatch starts at sample 0, and every later one starts at the
\* sample immediately after the last sample of the previous minibatch, wrapping
\* to sample 0 after the final sample, for every length and minibatch_size.
C23_MinibatchesTile ==
    [][LET n == Len(cfg.train_batch)
       IN  PositionOf(tr'.minibatch[1]) =
               IF oplog = <<>> THEN 0
               ELSE (PositionOf(Last(tr.minibatch)) + 1) % n]_vars

----------------------------------------------------------------------------
(* Claim about the ancestor a layer keeps, checked under Spec *)

\* the layer in front of l in the chain that l's most recent forward call built
\* (None after a call on a bare batch, and for a layer never called)
AncestorOfLastCall(l) ==
    IF Len(fwd_chain[l]) < 2 THEN None ELSE fwd_chain[l][Len(fwd_chain[l]) - 1]

\* C24 (as claimed): a layer's ancestor_layer reflects its most recent call: the
\* layer of the pair after a chained (batch, ancestor) call, absent after a call
\* on a bare batch; a backward that follows a bare-batch forward of the loss
\* reaches no upstream layer.
C24_AncestorOfMostRecentCall ==
    /\ \A l \in LayerIds : layers[l].ancestor_layer = AncestorOfLastCall(l)
    /\ (result.op = "backward" /\ fwd_chain["loss"] = <<"loss">>) => result.walk = <<>>

====
